---- MODULE Spec2Model ----
(***************************************************************************)
(* TransferTasksHandler (lambda/ota/transfer_tasks_handler.py): the read   *)
(* and write methods over the DynamoDB table 'TransferTasks', keyed by     *)
(* task_id.  The table is the state; every method is one action, apart     *)
(* from the generator get_all_transfer_tasks, which advances one scan      *)
(* request at a time.                                                      *)
(***************************************************************************)
EXTENDS Integers, Sequences, FiniteSets, TLC

VARIABLES
    table,      \* the TransferTasks table: task_id -> item (attribute -> value)
    op,         \* the method called last
    ret,        \* how that call ended: [outcome, value]
    storeErr,   \* whether the store failed a request in the last step
    writes,     \* number of store writes applied so far (bounds the run)
    scanPc,     \* the generator of get_all_transfer_tasks: "none" (no generator),
                \* "start", "paging", "done" (exhausted) or "raised"
    response,   \* the generator's local 'response': the last scan response
    yielded,    \* the TransferTasks the generator has yielded, in order
    scanLog,    \* per scan request: the ExclusiveStartKey sent, the LastEvaluatedKey got
    calls,      \* concurrent callers of update_transfer_task_start_details
    applied,    \* the callers whose store write was applied, in store order
    prior       \* the table before the concurrent calls

crudVars == <<table, op, ret, storeErr, writes>>
scanVars == <<scanPc, response, yielded, scanLog>>
concVars == <<calls, applied, prior>>
vars == <<table, op, ret, storeErr, writes, scanPc, response, yielded, scanLog,
          calls, applied, prior>>

---------------------------------------------------------------------------
(* Bounds and value domains *)

MaxWrites == 3
MaxPages == 3

PRIMARY_KEY == "task_id"

\* The task ids in the store's native (scan) order.
KeyOrder == <<"t1", "t2">>

TaskIds == { KeyOrder[i] : i \in 1..Len(KeyOrder) }

Statuses == {"CREATED", "IN_PROGRESS"}

\* The values of the fields the handler only passes through, and the two
\* lifecycle timestamps (None until the lifecycle event occurs).
Payloads ==
    { [creation_time_UTC   |-> "2024-01-01T00:00:00Z",
       task_start_time_UTC |-> "None",
       task_end_time_UTC   |-> "None",
       file_name           |-> "a.bin",
       file_size_kb        |-> 100,
       origination         |-> "deviceA",
       device_ids          |-> <<"d1", "d2">>],
      [creation_time_UTC   |-> "2024-02-02T00:00:00Z",
       task_start_time_UTC |-> "2024-02-02T00:05:00Z",
       task_end_time_UTC   |-> "2024-02-02T00:09:00Z",
       file_name           |-> "b.bin",
       file_size_kb        |-> 200,
       origination         |-> "deviceB",
       device_ids          |-> <<"d3">>] }

\* The attributes of a TransferTask, named as the handler and the table name them.
TaskFields ==
    { "task_id", "task_status", "transfer_status", "creation_time_UTC",
      "task_start_time_UTC", "task_end_time_UTC", "file_name", "file_size_kb",
      "origination", "device_ids" }

\* The TransferTask objects callers pass in: every attribute set.
Tasks ==
    { [task_id             |-> id,
       task_status         |-> ts,
       transfer_status     |-> xs,
       creation_time_UTC   |-> p.creation_time_UTC,
       task_start_time_UTC |-> p.task_start_time_UTC,
       task_end_time_UTC   |-> p.task_end_time_UTC,
       file_name           |-> p.file_name,
       file_size_kb        |-> p.file_size_kb,
       origination         |-> p.origination,
       device_ids          |-> p.device_ids] :
      id \in TaskIds, ts \in Statuses, xs \in Statuses, p \in Payloads }

---------------------------------------------------------------------------
(* task.TransferTask: constructor, accessors, serialization *)

\* TransferTask(**item): an object holding the attributes the item supplies;
\* an attribute the item lacks stays unset (outside the DOMAIN).
TransferTask(item) == [a \in (DOMAIN item) \cap TaskFields |-> item[a]]

get_task_id(t) == t.task_id
get_task_status(t) == t.task_status
get_transfer_status(t) == t.transfer_status
get_creation_time_UTC(t) == t.creation_time_UTC
get_task_start_time_UTC(t) == t.task_start_time_UTC
get_task_end_time_UTC(t) == t.task_end_time_UTC
get_file_name(t) == t.file_name
get_file_size_kb(t) == t.file_size_kb
get_origination(t) == t.origination
get_device_ids(t) == t.device_ids

\* to_dict(): the whole record as a field mapping.
to_dict(t) == [a \in TaskFields |-> t[a]]

---------------------------------------------------------------------------
(* The table resource (boto3 Table) as the handler calls it *)

\* put_item(Item=item): creates the item or replaces the whole item of that key.
put_item(tbl, item) ==
    [k \in (DOMAIN tbl) \cup {item[PRIMARY_KEY]} |->
        IF k = item[PRIMARY_KEY] THEN item ELSE tbl[k]]

\* update_item(Key=key, UpdateExpression="SET a = :v, ..."): sets the named
\* attributes of the item of that key and keeps its other attributes; creates
\* the item, with its key and the named attributes only, when there is none.
update_item(tbl, key, sets) ==
    LET old == IF key \in DOMAIN tbl
               THEN tbl[key]
               ELSE [a \in {PRIMARY_KEY} |-> key]
        new == [a \in (DOMAIN old) \cup (DOMAIN sets) |->
                   IF a \in DOMAIN sets THEN sets[a] ELSE old[a]]
    IN  [k \in (DOMAIN tbl) \cup {key} |-> IF k = key THEN new ELSE tbl[k]]

\* query(KeyConditionExpression=Key('task_id').eq(task_id)): the 'Items' list.
query(tbl, task_id) ==
    IF task_id \in DOMAIN tbl THEN <<tbl[task_id]>> ELSE <<>>

---------------------------------------------------------------------------
(* Call outcomes *)

NoValue == <<>>
Returned(v) == [outcome |-> "return", value |-> <<v>>]
ReturnedNone == [outcome |-> "return", value |-> NoValue]
Raised(e) == [outcome |-> e, value |-> NoValue]

NoScan ==
    /\ scanPc = "none"
    /\ response = <<>>
    /\ yielded = <<>>
    /\ scanLog = <<>>

NoCalls ==
    /\ calls = <<>>
    /\ applied = <<>>
    /\ prior = <<>>

\* TransferTasksHandler(): a handle to the table, nothing called yet.
Init ==
    /\ table = <<>>
    /\ op = "none"
    /\ ret = ReturnedNone
    /\ storeErr = FALSE
    /\ writes = 0
    /\ NoScan
    /\ NoCalls

---------------------------------------------------------------------------
(* Read operations *)

\* scan(**kwargs) answered with one page: the items of the keys after the
\* ExclusiveStartKey up to the key at position 'to' of the native order, and a
\* LastEvaluatedKey when the store says more may follow.
ItemsBetween(tbl, from, to) ==
    LET ks == SelectSeq(SubSeq(KeyOrder, from + 1, to), LAMBDA k : k \in DOMAIN tbl)
    IN  [i \in 1..Len(ks) |-> tbl[ks[i]]]

StartOf(kwargs) ==
    IF "ExclusiveStartKey" \in DOMAIN kwargs THEN kwargs.ExclusiveStartKey ELSE 0

scan(tbl, kwargs, to, more) ==
    IF more
    THEN [Items |-> ItemsBetween(tbl, StartOf(kwargs), to), LastEvaluatedKey |-> to]
    ELSE [Items |-> ItemsBetween(tbl, StartOf(kwargs), to)]

\* The pages the store may serve: it never goes back, its last page (no
\* LastEvaluatedKey) reaches the end of the table, and it serves at most
\* MaxPages pages.
StoreServes(kwargs, to, more) ==
    /\ to \in StartOf(kwargs)..Len(KeyOrder)
    /\ ~more => to = Len(KeyOrder)
    /\ Len(scanLog) + 1 >= MaxPages => ~more

\* for item in items: yield TransferTask(**item)
Yield(items) == [i \in 1..Len(items) |-> TransferTask(items[i])]

TokenOf(resp) ==
    IF "LastEvaluatedKey" \in DOMAIN resp THEN <<resp.LastEvaluatedKey>> ELSE <<>>

Logged(kwargs, resp, failed) ==
    [ExclusiveStartKey |-> IF "ExclusiveStartKey" \in DOMAIN kwargs
                           THEN <<kwargs.ExclusiveStartKey>> ELSE <<>>,
     LastEvaluatedKey  |-> TokenOf(resp),
     failed            |-> failed]

\* Variant: a failed request is swallowed and the generator goes on.
ScanRequestSwallow(kwargs, to, more, err) ==
    /\ storeErr' = err
    /\ IF err
       THEN /\ scanPc' = "paging"
            /\ scanLog' = Append(scanLog, Logged(kwargs, <<>>, TRUE))
            /\ UNCHANGED <<response, yielded, ret>>
       ELSE /\ StoreServes(kwargs, to, more)
            /\ scanPc' = "paging"
            /\ response' = scan(table, kwargs, to, more)
            /\ yielded' = yielded \o Yield(response'.Items)
            /\ scanLog' = Append(scanLog, Logged(kwargs, response', FALSE))
            /\ UNCHANGED ret

\* One scan request of the generator and the yields of its page.
ScanRequest(kwargs, to, more, err) ==
    /\ storeErr' = err
    /\ IF err
       THEN /\ scanPc' = "raised"
            /\ ret' = Raised("ClientError")
            /\ scanLog' = Append(scanLog, Logged(kwargs, <<>>, TRUE))
            /\ UNCHANGED <<response, yielded>>
       ELSE /\ StoreServes(kwargs, to, more)
            /\ scanPc' = "paging"
            /\ response' = scan(table, kwargs, to, more)
            /\ yielded' = yielded \o Yield(response'.Items)
            /\ scanLog' = Append(scanLog, Logged(kwargs, response', FALSE))
            /\ UNCHANGED ret

\* The call: a generator that has not run yet.
get_all_transfer_tasks ==
    /\ scanPc = "none"
    /\ scanPc' = "start"
    /\ op' = "get_all_transfer_tasks"
    /\ ret' = ReturnedNone
    /\ storeErr' = FALSE
    /\ UNCHANGED <<table, writes, response, yielded, scanLog>>

\* response = self._table.scan()
scan_first(to, more, err) ==
    /\ scanPc = "start"
    /\ ScanRequest(<<>>, to, more, err)
    /\ UNCHANGED <<table, op, writes>>

\* Variant: the loop scans again from the beginning of the table.
NextStartKeyRescan(resp) == 0

\* The ExclusiveStartKey of the next request.
NextStartKey(resp) == resp.LastEvaluatedKey

\* while "LastEvaluatedKey" in response: response = self._table.scan(ExclusiveStartKey=...)
scan_next(to, more, err) ==
    /\ scanPc = "paging"
    /\ "LastEvaluatedKey" \in DOMAIN response
    /\ ScanRequest([ExclusiveStartKey |-> NextStartKey(response)], to, more, err)
    /\ UNCHANGED <<table, op, writes>>

\* Variant: an 'if' for the 'while': at most one further page is requested.
scan_stop_early ==
    /\ scanPc = "paging"
    /\ "LastEvaluatedKey" \notin DOMAIN response \/ Len(scanLog) >= 2
    /\ scanPc' = "done"
    /\ storeErr' = FALSE
    /\ UNCHANGED <<table, op, ret, writes, response, yielded, scanLog>>

\* The loop ends: the generator is exhausted.
scan_stop ==
    /\ scanPc = "paging"
    /\ "LastEvaluatedKey" \notin DOMAIN response
    /\ scanPc' = "done"
    /\ storeErr' = FALSE
    /\ UNCHANGED <<table, op, ret, writes, response, yielded, scanLog>>

\* The consumer lets go of the generator (exhausted, failed or abandoned).
drop_generator ==
    /\ scanPc # "none"
    /\ scanPc' = "none"
    /\ response' = <<>>
    /\ yielded' = <<>>
    /\ scanLog' = <<>>
    /\ storeErr' = FALSE
    /\ UNCHANGED <<table, op, ret, writes>>

\* Variant: an empty result is reported with a dedicated error.
FirstItemNotFound(items) ==
    IF items = <<>> THEN Raised("NotFoundError") ELSE Returned(TransferTask(items[1]))

\* items[0] of the query result, or the IndexError of an empty list.
FirstItem(items) ==
    IF items = <<>> THEN Raised("IndexError") ELSE Returned(TransferTask(items[1]))

\* What get_transfer_task_details(task_id) ends in when the query succeeds.
Details(tbl, task_id) == FirstItem(query(tbl, task_id))

get_transfer_task_details(task_id, err) ==
    /\ scanPc = "none"
    /\ op' = "get_transfer_task_details"
    /\ storeErr' = err
    /\ ret' = IF err THEN Raised("ClientError") ELSE Details(table, task_id)
    /\ UNCHANGED <<table, writes>>
    /\ UNCHANGED scanVars

---------------------------------------------------------------------------
(* Write operations *)

\* The Item add_transfer_task builds.
AddItem(transferTask) ==
    [task_id             |-> get_task_id(transferTask),
     task_status         |-> get_task_status(transferTask),
     creation_time_UTC   |-> get_creation_time_UTC(transferTask),
     task_start_time_UTC |-> get_task_start_time_UTC(transferTask),
     task_end_time_UTC   |-> get_task_end_time_UTC(transferTask),
     file_name           |-> get_file_name(transferTask),
     file_size_kb        |-> get_file_size_kb(transferTask),
     origination         |-> get_origination(transferTask),
     device_ids          |-> get_device_ids(transferTask)]

add_transfer_task(transferTask, err) ==
    /\ scanPc = "none"
    /\ writes < MaxWrites
    /\ op' = "add_transfer_task"
    /\ storeErr' = err
    /\ IF err
       THEN /\ ret' = Raised("ClientError")
            /\ UNCHANGED <<table, writes>>
       ELSE /\ table' = put_item(table, AddItem(transferTask))
            /\ ret' = Returned(transferTask)
            /\ writes' = writes + 1
    /\ UNCHANGED scanVars

\* "SET task_status = :status, task_start_time_UTC = :start_time" with the
\* values bound to :status and :start_time (:end_time is bound and not used).
StartSets(transfer_task) ==
    [task_status         |-> get_transfer_status(transfer_task),
     task_start_time_UTC |-> get_task_start_time_UTC(transfer_task)]

\* Variant: the store's error is raised to the caller.
update_transfer_task_start_details_raise(transfer_task, err) ==
    /\ scanPc = "none"
    /\ writes < MaxWrites
    /\ op' = "update_transfer_task_start_details"
    /\ storeErr' = err
    /\ IF err
       THEN /\ ret' = Raised("ClientError")
            /\ UNCHANGED <<table, writes>>
       ELSE /\ ret' = ReturnedNone
            /\ table' = update_item(table, get_task_id(transfer_task),
                                    StartSets(transfer_task))
            /\ writes' = writes + 1
    /\ UNCHANGED scanVars

update_transfer_task_start_details(transfer_task, err) ==
    /\ scanPc = "none"
    /\ writes < MaxWrites
    /\ op' = "update_transfer_task_start_details"
    /\ storeErr' = err
    /\ ret' = ReturnedNone
    /\ IF err
       THEN UNCHANGED <<table, writes>>
       ELSE /\ table' = update_item(table, get_task_id(transfer_task),
                                    StartSets(transfer_task))
            /\ writes' = writes + 1
    /\ UNCHANGED scanVars

\* Variant: the finish update sets task_status, as the start update does.
FinishSetsTaskStatus(transfer_task) ==
    [task_status       |-> get_transfer_status(transfer_task),
     task_end_time_UTC |-> get_task_end_time_UTC(transfer_task)]

\* "SET transfer_status = :status, task_end_time_UTC = :end_time".
FinishSets(transfer_task) ==
    [transfer_status   |-> get_transfer_status(transfer_task),
     task_end_time_UTC |-> get_task_end_time_UTC(transfer_task)]

update_transfer_task_finish_details(transfer_task, err) ==
    /\ scanPc = "none"
    /\ writes < MaxWrites
    /\ op' = "update_transfer_task_finish_details"
    /\ storeErr' = err
    /\ ret' = ReturnedNone
    /\ IF err
       THEN UNCHANGED <<table, writes>>
       ELSE /\ table' = update_item(table, get_task_id(transfer_task),
                                    FinishSets(transfer_task))
            /\ writes' = writes + 1
    /\ UNCHANGED scanVars

---------------------------------------------------------------------------
(* Update operations *)

\* Variant: the record is written with the Item of add_transfer_task.
update_transfer_task_add_item(transfer_task, err) ==
    /\ scanPc = "none"
    /\ writes < MaxWrites
    /\ op' = "update_transfer_task"
    /\ storeErr' = err
    /\ IF err
       THEN /\ ret' = Raised("ClientError")
            /\ UNCHANGED <<table, writes>>
       ELSE /\ table' = put_item(table, AddItem(transfer_task))
            /\ ret' = Returned(transfer_task)
            /\ writes' = writes + 1
    /\ UNCHANGED scanVars

update_transfer_task(transfer_task, err) ==
    /\ scanPc = "none"
    /\ writes < MaxWrites
    /\ op' = "update_transfer_task"
    /\ storeErr' = err
    /\ IF err
       THEN /\ ret' = Raised("ClientError")
            /\ UNCHANGED <<table, writes>>
       ELSE /\ table' = put_item(table, to_dict(transfer_task))
            /\ ret' = Returned(transfer_task)
            /\ writes' = writes + 1
    /\ UNCHANGED scanVars

---------------------------------------------------------------------------
(* The handler called by one caller at a time *)

Next ==
    \/ get_all_transfer_tasks /\ UNCHANGED concVars
    \/ \E to \in 0..Len(KeyOrder), more \in BOOLEAN, err \in BOOLEAN :
          scan_first(to, more, err) /\ UNCHANGED concVars
    \/ \E to \in 0..Len(KeyOrder), more \in BOOLEAN, err \in BOOLEAN :
          scan_next(to, more, err) /\ UNCHANGED concVars
    \/ scan_stop /\ UNCHANGED concVars
    \/ drop_generator /\ UNCHANGED concVars
    \/ \E id \in TaskIds, err \in BOOLEAN :
          get_transfer_task_details(id, err) /\ UNCHANGED concVars
    \/ \E t \in Tasks, err \in BOOLEAN :
          add_transfer_task(t, err) /\ UNCHANGED concVars
    \/ \E t \in Tasks, err \in BOOLEAN :
          update_transfer_task_start_details(t, err) /\ UNCHANGED concVars
    \/ \E t \in Tasks, err \in BOOLEAN :
          update_transfer_task_finish_details(t, err) /\ UNCHANGED concVars
    \/ \E t \in Tasks, err \in BOOLEAN :
          update_transfer_task(t, err) /\ UNCHANGED concVars

Spec == Init /\ [][Next]_vars

---------------------------------------------------------------------------
(* Two callers in update_transfer_task_start_details on one task_id *)

Callers == {"A", "B"}

\* An existing record, and two calls in flight whose :status and :start_time differ.
InitConc ==
    /\ \E t0 \in Tasks :
          \E item \in {AddItem(t0), to_dict(t0)} : table = put_item(<<>>, item)
    /\ \E ta \in Tasks, tb \in Tasks :
          /\ get_task_id(ta) \in DOMAIN table
          /\ get_task_id(tb) = get_task_id(ta)
          /\ get_transfer_status(ta) # get_transfer_status(tb)
          /\ get_task_start_time_UTC(ta) # get_task_start_time_UTC(tb)
          /\ calls = [c \in Callers |->
                        [pc |-> "called", task |-> IF c = "A" THEN ta ELSE tb]]
    /\ applied = <<>>
    /\ prior = table
    /\ op = "none"
    /\ ret = ReturnedNone
    /\ storeErr = FALSE
    /\ writes = 0
    /\ NoScan

\* Variant: the call writes its two attributes with two update_item requests.
concurrent_update_start_split(c) ==
    /\ calls[c].pc \in {"called", "half"}
    /\ LET t == calls[c].task
           sets == IF calls[c].pc = "called"
                   THEN [task_status |-> get_transfer_status(t)]
                   ELSE [task_start_time_UTC |-> get_task_start_time_UTC(t)]
       IN  /\ table' = update_item(table, get_task_id(t), sets)
           /\ writes' = writes
           /\ op' = "update_transfer_task_start_details"
           /\ ret' = ReturnedNone
           /\ storeErr' = FALSE
           /\ calls' = [calls EXCEPT ![c].pc =
                           IF calls[c].pc = "called" THEN "half" ELSE "returned"]
           /\ applied' = IF calls[c].pc = "called" THEN applied ELSE Append(applied, c)
    /\ UNCHANGED scanVars
    /\ UNCHANGED prior

\* Caller c's call runs: its one update_item is applied by the store (or fails)
\* and the call returns.
concurrent_update_start(c) ==
    /\ calls[c].pc = "called"
    /\ \E err \in BOOLEAN :
          /\ update_transfer_task_start_details(calls[c].task, err)
          /\ applied' = IF err THEN applied ELSE Append(applied, c)
    /\ calls' = [calls EXCEPT ![c].pc = "returned"]
    /\ UNCHANGED prior

NextConc == \E c \in Callers : concurrent_update_start(c)

SpecConc == InitConc /\ [][NextConc]_vars

---------------------------------------------------------------------------
(* Properties *)

\* Attribute a is set in both records with one value, or in neither.
SameAttr(a, x, y) ==
    /\ a \in DOMAIN x <=> a \in DOMAIN y
    /\ a \in DOMAIN x => x[a] = y[a]

\* The call ended by returning a record that has attribute a with value v.
ReturnsWith(outcome, a, v) ==
    /\ outcome.outcome = "return"
    /\ a \in DOMAIN outcome.value[1]
    /\ outcome.value[1][a] = v

\* C1: get_transfer_task_details(R.task_id) right after a successful
\* add_transfer_task(R) returns a record equal to R in every field of the
\* data model, transfer_status included.
C1_InsertThenGetEqualsR ==
    [][\A R \in Tasks :
          (op' = "add_transfer_task" /\ add_transfer_task(R, FALSE)) =>
              \A a \in TaskFields :
                  ReturnsWith(Details(table', get_task_id(R)), a, R[a])]_vars

\* C3: after a successful update_transfer_task_start_details(task) on an
\* existing record, get_transfer_task_details shows the task_status and the
\* start time carried by the task, and every other field as it was before.
C3_UpdateStartSetsTaskStatus ==
    [][\A t \in Tasks :
          (/\ op' = "update_transfer_task_start_details"
           /\ get_task_id(t) \in DOMAIN table
           /\ update_transfer_task_start_details(t, FALSE)) =>
              LET got == Details(table', get_task_id(t))
                  was == Details(table, get_task_id(t))
              IN  /\ ReturnsWith(got, "task_status", get_task_status(t))
                  /\ ReturnsWith(got, "task_start_time_UTC", get_task_start_time_UTC(t))
                  /\ \A a \in TaskFields \ {"task_status", "task_start_time_UTC"} :
                        SameAttr(a, got.value[1], was.value[1])]_vars

\* C4: a successful update_transfer_task_finish_details(task) on an existing
\* record sets transfer_status and task_end_time_UTC of that record to the
\* task's values and changes no other field of it and no other record, as
\* get_transfer_task_details then shows.
C4_UpdateFinishFrame ==
    [][(op' = "update_transfer_task_finish_details" /\ ~storeErr') =>
       \A t \in Tasks :
          (/\ get_task_id(t) \in DOMAIN table
           /\ update_transfer_task_finish_details(t, FALSE)) =>
              LET got == Details(table', get_task_id(t))
                  was == Details(table, get_task_id(t))
              IN  /\ ReturnsWith(got, "transfer_status", get_transfer_status(t))
                  /\ ReturnsWith(got, "task_end_time_UTC", get_task_end_time_UTC(t))
                  /\ \A a \in TaskFields \ {"transfer_status", "task_end_time_UTC"} :
                        SameAttr(a, got.value[1], was.value[1])
                  /\ \A id \in TaskIds \ {get_task_id(t)} :
                        Details(table', id) = Details(table, id)]_vars

\* C4 witness: the last call was a successful finish update of the existing
\* record t1 (written from the first payload, ended with the second one's end
\* time) beside a record t2 that no finish update has touched.
C4_Witness ==
    /\ op = "update_transfer_task_finish_details"
    /\ ~storeErr
    /\ DOMAIN table = {"t1", "t2"}
    /\ "file_name" \in DOMAIN table["t1"]
    /\ table["t1"].file_name = "a.bin"
    /\ "task_end_time_UTC" \in DOMAIN table["t1"]
    /\ table["t1"].task_end_time_UTC = "2024-02-02T00:09:00Z"
    /\ "transfer_status" \in DOMAIN table["t1"]
    /\ "transfer_status" \notin DOMAIN table["t2"]
    /\ "file_name" \in DOMAIN table["t2"]

\* C5: a successful update_transfer_task(task) leaves, under task.task_id,
\* exactly the fields and values of task, whatever record was there before;
\* the other records are unchanged and the call returns the task.
C5_UpdateReplaces ==
    [][\A t \in Tasks :
          (op' = "update_transfer_task" /\ update_transfer_task(t, FALSE)) =>
              /\ Details(table', get_task_id(t)) = Returned(t)
              /\ DOMAIN table'[get_task_id(t)] = TaskFields
              /\ \A id \in TaskIds \ {get_task_id(t)} :
                    Details(table', id) = Details(table, id)
              /\ ret' = Returned(t)]_vars

\* C5 witness: the last of three writes was a successful update_transfer_task
\* of a task whose two statuses differ; the table holds that task under its
\* key and a record under the other key.
C5_Witness ==
    /\ op = "update_transfer_task"
    /\ ~storeErr
    /\ writes = 3
    /\ DOMAIN table = TaskIds
    /\ ret.outcome = "return"
    /\ ret.value[1].task_id \in DOMAIN table
    /\ table[ret.value[1].task_id] = to_dict(ret.value[1])
    /\ ret.value[1].transfer_status # ret.value[1].task_status

\* C6: update_transfer_task_start_details and
\* update_transfer_task_finish_details return None whether the store write
\* succeeded or failed, and a failed write leaves the table as it was.
C6_SwallowedErrors ==
    [][op' \in {"update_transfer_task_start_details",
                "update_transfer_task_finish_details"} =>
          /\ ret' = ReturnedNone
          /\ storeErr' => table' = table]_vars

\* C6 witness: a start update whose store write failed has returned None,
\* with a record in the table.
C6_Witness ==
    /\ op = "update_transfer_task_start_details"
    /\ storeErr
    /\ ret = ReturnedNone
    /\ table # <<>>

\* C8: get_transfer_task_details of a task_id without a record ends in an
\* IndexError (not a record, not a ClientError, not a not-found error); of a
\* task_id with a record it returns that record; the table is unchanged.
C8_GetMissingIsIndexError ==
    [][\A id \in TaskIds :
          (op' = "get_transfer_task_details"
              /\ get_transfer_task_details(id, FALSE)) =>
              /\ table' = table
              /\ id \notin DOMAIN table =>
                    /\ ret'.outcome = "IndexError"
                    /\ ret'.value = NoValue
              /\ id \in DOMAIN table =>
                    /\ ret'.outcome = "return"
                    /\ \A a \in TaskFields \cup DOMAIN table[id] :
                          SameAttr(a, ret'.value[1], table[id])]_vars

\* C8 witness: a lookup of a missing task_id has ended in the IndexError while
\* the table holds another record.
C8_Witness ==
    /\ op = "get_transfer_task_details"
    /\ ~storeErr
    /\ ret.outcome = "IndexError"
    /\ Cardinality(DOMAIN table) = 1

\* The last entry of the scan log.
LastLogged == scanLog[Len(scanLog)]

\* C2: a scan of an unwritten table that runs to exhaustion without a store
\* failure has yielded exactly one record per task_id of the table, each the
\* table's record, however the store split the table into pages (empty pages
\* with a LastEvaluatedKey included); nothing for an empty table.
C2_ListAllExact ==
    scanPc = "done" =>
        /\ Len(yielded) = Cardinality(DOMAIN table)
        /\ { get_task_id(yielded[i]) : i \in 1..Len(yielded) } = DOMAIN table
        /\ \A i \in 1..Len(yielded) :
              \A a \in TaskFields \cup DOMAIN table[get_task_id(yielded[i])] :
                  SameAttr(a, yielded[i], table[get_task_id(yielded[i])])

\* C2 witness: a scan of two records is exhausted after three pages, the
\* first of them empty with a LastEvaluatedKey.
C2_Witness ==
    /\ scanPc = "done"
    /\ Cardinality(DOMAIN table) = 2
    /\ Len(scanLog) = 3
    /\ scanLog[1].LastEvaluatedKey = <<0>>
    /\ Len(yielded) = 2

\* C7: a store error in get_transfer_task_details, add_transfer_task or
\* update_transfer_task is raised (no value) and leaves the table unchanged;
\* a store error on a scan request is raised at that request, when the records
\* of all earlier pages have been yielded, and afterwards the generator yields
\* nothing and requests nothing.
C7_ErrorsRaised ==
    /\ [][/\ (op' \in {"get_transfer_task_details", "add_transfer_task",
                        "update_transfer_task"} /\ storeErr') =>
                (ret' = Raised("ClientError") /\ table' = table)
          /\ (Len(scanLog') > Len(scanLog) /\ storeErr') =>
                /\ scanPc' = "raised"
                /\ ret' = Raised("ClientError")
                /\ yielded' = yielded
                /\ table' = table
          /\ scanPc = "raised" =>
                \/ scanPc' = "raised" /\ yielded' = yielded /\ scanLog' = scanLog
                \/ scanPc' = "none"]_vars
    /\ [](scanPc = "raised" =>
            /\ LastLogged.failed
            /\ yielded = Yield(ItemsBetween(table, 0,
                   IF LastLogged.ExclusiveStartKey = <<>>
                   THEN 0 ELSE LastLogged.ExclusiveStartKey[1])))

\* C7 witness: the third scan request failed after both records were yielded.
C7_Witness ==
    /\ scanPc = "raised"
    /\ Len(scanLog) = 3
    /\ Len(yielded) = 2
    /\ ret = Raised("ClientError")

\* C10: the first scan request carries no ExclusiveStartKey; every later one
\* carries the LastEvaluatedKey of the response just before it; a response
\* with a LastEvaluatedKey is followed by a request and by nothing else, one
\* without by the end of the generator; so the requests number the pages the
\* store served, at most MaxPages; and a new generator starts with no request
\* made.
C10_PaginationChain ==
    /\ Len(scanLog) <= MaxPages
    /\ scanLog # <<>> => scanLog[1].ExclusiveStartKey = <<>>
    /\ \A i \in 2..Len(scanLog) :
          /\ ~scanLog[i - 1].failed
          /\ scanLog[i - 1].LastEvaluatedKey # <<>>
          /\ scanLog[i].ExclusiveStartKey = scanLog[i - 1].LastEvaluatedKey
    /\ scanPc = "start" => scanLog = <<>> /\ yielded = <<>>
    /\ scanPc = "start" =>
          ENABLED (\E to \in 0..Len(KeyOrder), more \in BOOLEAN :
                      scan_first(to, more, FALSE))
    /\ scanPc = "paging" =>
          /\ ~LastLogged.failed
          /\ LastLogged.LastEvaluatedKey = TokenOf(response)
          /\ IF LastLogged.LastEvaluatedKey # <<>>
             THEN /\ ENABLED (\E to \in 0..Len(KeyOrder), more \in BOOLEAN :
                                 scan_next(to, more, FALSE))
                  /\ ~ENABLED scan_stop
             ELSE /\ ENABLED scan_stop
                  /\ ~ENABLED (\E to \in 0..Len(KeyOrder), more \in BOOLEAN,
                                  err \in BOOLEAN : scan_next(to, more, err))
    /\ scanPc = "done" =>
          /\ scanLog # <<>>
          /\ ~LastLogged.failed
          /\ LastLogged.LastEvaluatedKey = <<>>

\* C10 witness: a generator is exhausted after as many requests as the store
\* served pages, three of them, over a table with records.
C10_Witness ==
    /\ scanPc = "done"
    /\ Len(scanLog) = 3
    /\ table # <<>>
    /\ scanLog[3].ExclusiveStartKey = scanLog[2].LastEvaluatedKey

\* C9: when both concurrent calls have returned, the record holds the :status
\* and the :start_time of one and the same call, the one whose write the store
\* applied last (the record is as before when no write was applied), and every
\* attribute the update does not set is as it was before the calls.
C9_LastWriteWins ==
    (\A c \in Callers : calls[c].pc = "returned") =>
        LET id  == get_task_id(calls["A"].task)
            now == table[id]
            was == prior[id]
        IN  /\ DOMAIN table = DOMAIN prior
            /\ \A a \in (DOMAIN was \cup DOMAIN now)
                          \ {"task_status", "task_start_time_UTC"} :
                  SameAttr(a, now, was)
            /\ IF applied = <<>>
               THEN now = was
               ELSE LET last == calls[applied[Len(applied)]].task
                    IN  /\ now.task_status = get_transfer_status(last)
                        /\ now.task_start_time_UTC = get_task_start_time_UTC(last)

\* C9 witness: both calls have returned with both writes applied, B's last.
C9_Witness ==
    /\ calls # <<>>
    /\ \A c \in Callers : calls[c].pc = "returned"
    /\ applied = <<"A", "B">>
    /\ table # prior

====
